---- MODULE Spec2Model ----
(***************************************************************************)
(* Model of the BofhContract python interface (package bofh.contract):     *)
(*   SwapInspection.pack_args_payload     word packing of a swap path      *)
(*   SwapInspection.inspection_calldata   path -> packed call arguments    *)
(*   enumerate_method_selectors           selector discovery from an ABI   *)
(*   SwapInspection.from_output           decoding of inspection rows      *)
(*   SwapInspection.update_attack_plan    folding inspections into a plan  *)
(*                                                                         *)
(* Python integers are unbounded.  A non-negative integer is modelled as   *)
(* the little-endian sequence of its base-16 digits without leading zero   *)
(* digits, so that 160-, 180- and 128-bit shifts keep their real width.    *)
(***************************************************************************)
EXTENDS Integers, Sequences, FiniteSets, TLC

VARIABLES pc, call, ret, plan, connector

vars == <<pc, call, ret, plan, connector>>

(***************************************************************************)
(* Bounds of the explored inputs.                                          *)
(***************************************************************************)
MaxPools == 2

MaxPath == 2

MaxAbi == 2

MaxRows == 3

MaxSteps == 2

MaxInstances == 3

(***************************************************************************)
(* Python values.                                                          *)
(***************************************************************************)
None == [none |-> TRUE]

Some(v) == [none |-> FALSE, v |-> v]

Max(a, b) == IF a >= b THEN a ELSE b

Min(a, b) == IF a <= b THEN a ELSE b

\* all sequences over S of length lo..hi
SeqsOf(S, lo, hi) == UNION {[1..n -> S] : n \in lo..hi}

(***************************************************************************)
(* Unbounded non-negative integers as little-endian hexadecimal digits.    *)
(***************************************************************************)
HexBase == 16

BitsPerDigit == CHOOSE b \in 1..8 : 2^b = HexBase

HexChars == <<"0","1","2","3","4","5","6","7","8","9","a","b","c","d","e","f">>

HexUpper == <<"0","1","2","3","4","5","6","7","8","9","A","B","C","D","E","F">>

HexVal(c) == CHOOSE v \in 0..(HexBase - 1) : HexChars[v + 1] = c \/ HexUpper[v + 1] = c

RECURSIVE Normalize(_)
Normalize(x) ==
    IF x = <<>> THEN <<>>
    ELSE IF x[Len(x)] = 0 THEN Normalize(SubSeq(x, 1, Len(x) - 1))
    ELSE x

Limb(x, i) == IF i <= Len(x) THEN x[i] ELSE 0

RECURSIVE FromNat(_)
FromNat(n) == IF n = 0 THEN <<>> ELSE <<n % HexBase>> \o FromNat(n \div HexBase)

RECURSIVE DigitOr(_, _)
DigitOr(a, b) ==
    IF a = 0 THEN b
    ELSE IF b = 0 THEN a
    ELSE (IF a % 2 = 1 \/ b % 2 = 1 THEN 1 ELSE 0) + 2 * DigitOr(a \div 2, b \div 2)

RECURSIVE DigitAnd(_, _)
DigitAnd(a, b) ==
    IF a = 0 \/ b = 0 THEN 0
    ELSE (IF a % 2 = 1 /\ b % 2 = 1 THEN 1 ELSE 0) + 2 * DigitAnd(a \div 2, b \div 2)

\* x | y
IntOr(x, y) ==
    Normalize([i \in 1..Max(Len(x), Len(y)) |-> DigitOr(Limb(x, i), Limb(y, i))])

\* x & y
IntAnd(x, y) ==
    Normalize([i \in 1..Min(Len(x), Len(y)) |-> DigitAnd(x[i], y[i])])

\* x << bits, for a shift that is a whole number of hexadecimal digits
ShiftLeft(x, bits) ==
    LET k == bits \div BitsPerDigit
    IN  IF x = <<>> THEN <<>>
        ELSE [i \in 1..(k + Len(x)) |-> IF i <= k THEN 0 ELSE x[i - k]]

\* x >> bits, for a shift that is a whole number of hexadecimal digits
ShiftRight(x, bits) ==
    LET k == bits \div BitsPerDigit
    IN  IF Len(x) <= k THEN <<>> ELSE SubSeq(x, k + 1, Len(x))

\* bits [lo, hi) of x
BitField(x, lo, hi) ==
    LET y == ShiftRight(x, lo)
        k == (hi - lo) \div BitsPerDigit
    IN  Normalize(SubSeq(y, 1, Min(k, Len(y))))

\* int(s, 16) of a string of hexadecimal characters with an optional 0x prefix
ParseHex(s) ==
    LET body == IF Len(s) >= 2 /\ s[1] = "0" /\ s[2] \in {"x", "X"}
                THEN SubSeq(s, 3, Len(s)) ELSE s
    IN  Normalize([i \in 1..Len(body) |-> HexVal(body[Len(body) + 1 - i])])

(***************************************************************************)
(* SwapInspection.pack_args_payload                                        *)
(***************************************************************************)
AddressBits == 160

StopBit == 180

AmountBits == 128

FeeBits == StopBit - AddressBits

\* 0xffffffffffffffffffffffffffffffff
Mask128 == [i \in 1..(AmountBits \div BitsPerDigit) |-> HexBase - 1]

\* the fee shifted one hexadecimal digit too far
PackWordFeeShifted(addr, fee, i, stop_after_pool) ==
    IntOr(ParseHex(addr), ShiftLeft(FromNat(fee), AddressBits + BitsPerDigit))

\* the marker set on the word before the one stop_after_pool names
PackWordStopOffByOne(addr, fee, i, stop_after_pool) ==
    LET val == IntOr(ParseHex(addr), ShiftLeft(FromNat(fee), AddressBits))
    IN  IF ~stop_after_pool.none /\ stop_after_pool.v = i + 1
        THEN IntOr(val, ShiftLeft(FromNat(1), StopBit))
        ELSE val

\* val = int(str(addr), 16) | (fee << 160), with bit 180 when stop_after_pool == i
PackWord(addr, fee, i, stop_after_pool) ==
    LET val == IntOr(ParseHex(addr), ShiftLeft(FromNat(fee), AddressBits))
    IN  IF ~stop_after_pool.none /\ stop_after_pool.v = i
        THEN IntOr(val, ShiftLeft(FromNat(1), StopBit))
        ELSE val

\* the two amounts in each other's half
AmountsWordSwapped(initial_amount, expected_amount) ==
    IntOr(ShiftLeft(IntAnd(expected_amount, Mask128), 0),
          ShiftLeft(IntAnd(initial_amount, Mask128), AmountBits))

AmountsWord(initial_amount, expected_amount) ==
    IntOr(ShiftLeft(IntAnd(initial_amount, Mask128), 0),
          ShiftLeft(IntAnd(expected_amount, Mask128), AmountBits))

\* without the length assertion: zip() stops at the shorter list
pack_args_payload_zip(pools, fees, initial_amount, expected_amount, stop_after_pool) ==
    [ok |-> TRUE,
     value |-> << [i \in 1..Min(Len(pools), Len(fees)) |->
                      PackWord(pools[i], fees[i], i - 1, stop_after_pool)]
                  \o << AmountsWord(initial_amount, expected_amount) >> >>]

\* the outcome of pack_args_payload: an AssertionError, or the list [args]
pack_args_payload(pools, fees, initial_amount, expected_amount, stop_after_pool) ==
    IF Len(pools) # Len(fees)
    THEN [ok |-> FALSE, error |-> "AssertionError"]
    ELSE [ok |-> TRUE,
          value |-> << [i \in 1..Len(pools) |->
                           PackWord(pools[i], fees[i], i - 1, stop_after_pool)]
                       \o << AmountsWord(initial_amount, expected_amount) >> >>]

(***************************************************************************)
(* Inputs of pack_args_payload.                                            *)
(***************************************************************************)
AddrA == <<"0", "x">> \o [i \in 1..40 |-> HexChars[((7 * i) % HexBase) + 1]]

AddrB == <<"0", "x">> \o [i \in 1..40 |-> HexUpper[((11 * i + 3) % HexBase) + 1]]

\* a string of 41 hexadecimal digits: not an address, wider than 160 bits
AddrWide == <<"0", "x", "1">> \o [i \in 1..40 |-> HexChars[((5 * i) % HexBase) + 1]]

PackPools == {AddrA, AddrB, AddrWide}

\* fees in parts per million; the last one does not fit the 20 bit field
PackFees == {300, 2^FeeBits - 1, 2^FeeBits + 300}

\* 0, 1000000, 2^128 - 1 and 2^128 + 5
PackAmounts == {<<>>, FromNat(1000000), Mask128,
                [i \in 1..(AmountBits \div BitsPerDigit + 1) |->
                    IF i = 1 THEN 5 ELSE IF i > AmountBits \div BitsPerDigit THEN 1 ELSE 0]}

StopChoices == {None} \cup {Some(k) : k \in 0..(MaxPools - 1)}

FitsBits(x, bits) == Len(x) <= bits \div BitsPerDigit

(***************************************************************************)
(* The plan of an attack: an object owned by the caller.                   *)
(***************************************************************************)
NoPlan == [size |-> 0]

(***************************************************************************)
(* Web3Connector: the class attributes _instance and _rpc_url, and the     *)
(* number of Web3 instances created so far.                                *)
(***************************************************************************)
NoConnector == [_instance |-> None, _rpc_url |-> None, created |-> 0]

Idle == [op |-> "none"]

NoRet == [ok |-> TRUE]

(***************************************************************************)
(* Specification of the word codec.                                        *)
(***************************************************************************)
InitPack ==
    /\ pc = "idle"
    /\ call = Idle
    /\ ret = NoRet
    /\ plan = NoPlan
    /\ connector = NoConnector

Pack ==
    /\ pc = "idle"
    /\ \E np \in 0..MaxPools, nf \in 0..MaxPools :
       \E pools \in [1..np -> PackPools], fees \in [1..nf -> PackFees],
          ia \in PackAmounts, ea \in PackAmounts, stop \in StopChoices :
          /\ call' = [op |-> "pack", pools |-> pools, fees |-> fees,
                      initial_amount |-> ia, expected_amount |-> ea,
                      stop_after_pool |-> stop]
          /\ ret' = pack_args_payload(pools, fees, ia, ea, stop)
    /\ pc' = "done"
    /\ UNCHANGED <<plan, connector>>

Return ==
    /\ pc = "done"
    /\ pc' = "idle"
    /\ call' = Idle
    /\ ret' = NoRet
    /\ UNCHANGED <<plan, connector>>

NextPack == Pack \/ Return

SpecPack == InitPack /\ [][NextPack]_vars

(***************************************************************************)
(* SwapInspection.inspection_calldata                                      *)
(*                                                                         *)
(* A path is the sequence of its swaps, each with the address and the      *)
(* feesPPM() of its pool.  override_fees is a tagged python value:         *)
(*   kind "none"   None                                                    *)
(*   kind "int"    an integer v                                            *)
(*   kind "list"   a list v of integers and None                           *)
(*   kind "tuple"  a tuple v of integers and None                          *)
(*   kind "other"  a value of another type, true or false under bool()     *)
(***************************************************************************)
\* bool(override_fees)
Truthy(o) ==
    CASE o.kind = "none" -> FALSE
      [] o.kind = "int" -> o.n # 0
      [] o.kind \in {"list", "tuple"} -> Len(o.items) > 0
      [] OTHER -> o.truthy

\* override_fees as line 82 finds it: [override_fees] * path.size() for an int
OverrideList(path, o) ==
    IF o.kind = "int" THEN [i \in 1..Len(path) |-> Some(o.n)] ELSE o.items

\* the fee of step i (from 1), lines 85-87
StepFee(path, o, i) ==
    IF Truthy(o) /\ Len(OverrideList(path, o)) > 0 /\ ~OverrideList(path, o)[i].none
    THEN OverrideList(path, o)[i].v
    ELSE path[i].fee

inspection_calldata(path, initial_amount, override_fees) ==
    IF Truthy(override_fees) /\ override_fees.kind \notin {"list", "int"}
    THEN [ok |-> FALSE, error |-> "TypeError",
          msg |-> "override_fees must be int or list[int]"]
    ELSE IF Truthy(override_fees)
            /\ Len(OverrideList(path, override_fees)) # Len(path)
    THEN [ok |-> FALSE, error |-> "TypeError",
          msg |-> "override_fees len must match path len"]
    ELSE pack_args_payload([i \in 1..Len(path) |-> path[i].address],
                           [i \in 1..Len(path) |-> StepFee(path, override_fees, i)],
                           initial_amount, <<>>, None)

(***************************************************************************)
(* Inputs of inspection_calldata.                                          *)
(***************************************************************************)
Swaps == {[address |-> AddrA, fee |-> 300], [address |-> AddrB, fee |-> 500]}

OverrideEntries == {None, Some(0), Some(1000)}

Overrides ==
    {[kind |-> "none"]}
    \cup {[kind |-> "int", n |-> f] : f \in {0, 1000}}
    \cup {[kind |-> "list", items |-> l] : l \in SeqsOf(OverrideEntries, 0, MaxPath + 1)}
    \cup {[kind |-> "tuple", items |-> l] : l \in SeqsOf({Some(1000)}, 0, MaxPath)}
    \cup {[kind |-> "other", truthy |-> b] : b \in BOOLEAN}

InspectAmounts == {<<>>, FromNat(1000000)}

InitInspect ==
    /\ pc = "idle"
    /\ call = Idle
    /\ ret = NoRet
    /\ plan = NoPlan
    /\ connector = NoConnector

BuildInspectionArgs ==
    /\ pc = "idle"
    /\ \E path \in SeqsOf(Swaps, 0, MaxPath), ia \in InspectAmounts, o \in Overrides :
          /\ call' = [op |-> "inspection_calldata", path |-> path,
                      initial_amount |-> ia, override_fees |-> o]
          /\ ret' = inspection_calldata(path, ia, o)
    /\ pc' = "done"
    /\ UNCHANGED <<plan, connector>>

NextInspect == BuildInspectionArgs \/ Return

SpecInspect == InitInspect /\ [][NextInspect]_vars

(***************************************************************************)
(* Properties of inspection_calldata.                                      *)
(***************************************************************************)
InspectDone == pc = "done" /\ call.op = "inspection_calldata"

PathPools == [i \in 1..Len(call.path) |-> call.path[i].address]

LenMismatch == [ok |-> FALSE, error |-> "TypeError",
                msg |-> "override_fees len must match path len"]

\* C2: with a single integer override fee f, inspection_calldata returns the
\* words of pack on the path's pools, the fee f repeated L times, the same
\* initialAmount and expectedAmount 0.
C2_BroadcastFee ==
    (InspectDone /\ call.override_fees.kind = "int") =>
        ret = pack_args_payload(PathPools,
                                [i \in 1..Len(call.path) |-> call.override_fees.n],
                                call.initial_amount, <<>>, None)

\* C7: with a per-step list, inspection_calldata fails with the length error
\* if and only if the list length differs from the path length (an empty list
\* for a non-empty path included); with matching lengths the fee of step i is
\* override_fees[i] unless that entry is None, and then the pool's own fee.
C7_PerStepOverride ==
    (InspectDone /\ call.override_fees.kind = "list") =>
        IF Len(call.override_fees.items) # Len(call.path)
        THEN ret = LenMismatch
        ELSE ret = pack_args_payload(PathPools,
                       [i \in 1..Len(call.path) |->
                           IF call.override_fees.items[i].none
                           THEN call.path[i].fee ELSE call.override_fees.items[i].v],
                       call.initial_amount, <<>>, None)

(***************************************************************************)
(* Properties of the word codec.                                           *)
(***************************************************************************)
PackDone == pc = "done" /\ call.op = "pack"

PackedWords == ret.value[1]

\* C1 as stated: for any pools and fees of equal length L, pack returns one
\* argument of L+1 words, and bits [0,160) and [160,180) of word i are
\* pools[i] and fees[i].
C1_AnyFeeDecodes ==
    (PackDone /\ Len(call.pools) = Len(call.fees)) =>
        /\ ret.ok
        /\ Len(ret.value) = 1
        /\ Len(PackedWords) = Len(call.pools) + 1
        /\ \A i \in 1..Len(call.pools) :
              /\ BitField(PackedWords[i], 0, AddressBits) = ParseHex(call.pools[i])
              /\ BitField(PackedWords[i], AddressBits, StopBit) = FromNat(call.fees[i])

\* C1, amended: for any pools and fees of equal length L, pack returns one
\* argument of L+1 words; for every i < L whose pool address fits 160 bits,
\* bits [0,160) of word i are pools[i], and if moreover fees[i] < 2^20, bits
\* [160,180) of word i are fees[i].
C1_InRangeDecodes ==
    (PackDone /\ Len(call.pools) = Len(call.fees)) =>
        /\ ret.ok
        /\ Len(ret.value) = 1
        /\ Len(PackedWords) = Len(call.pools) + 1
        /\ \A i \in 1..Len(call.pools) :
              FitsBits(ParseHex(call.pools[i]), AddressBits) =>
                /\ BitField(PackedWords[i], 0, AddressBits) = ParseHex(call.pools[i])
                /\ call.fees[i] < 2^FeeBits =>
                      BitField(PackedWords[i], AddressBits, StopBit) = FromNat(call.fees[i])

C1_Witness ==
    /\ PackDone
    /\ ret.ok
    /\ Len(call.pools) = MaxPools
    /\ call.pools[1] = AddrA /\ call.pools[MaxPools] = AddrB
    /\ call.fees[1] = 300 /\ call.fees[MaxPools] = 2^FeeBits - 1
    /\ BitField(PackedWords[1], AddressBits, StopBit) = FromNat(300)

\* C5 as stated: for any initialAmount and expectedAmount, the low and the
\* high 128 bits of the amounts word are initialAmount and expectedAmount.
C5_AnyAmountSplits ==
    (PackDone /\ ret.ok) =>
        LET w == PackedWords[Len(PackedWords)]
        IN  /\ BitField(w, 0, AmountBits) = call.initial_amount
            /\ BitField(w, AmountBits, 2 * AmountBits) = call.expected_amount

\* C5, amended: for any initialAmount and expectedAmount below 2^128, the
\* low and the high 128 bits of the amounts word are initialAmount and
\* expectedAmount.
C5_AmountsSplit ==
    (PackDone /\ ret.ok /\ FitsBits(call.initial_amount, AmountBits)
              /\ FitsBits(call.expected_amount, AmountBits)) =>
        LET w == PackedWords[Len(PackedWords)]
        IN  /\ BitField(w, 0, AmountBits) = call.initial_amount
            /\ BitField(w, AmountBits, 2 * AmountBits) = call.expected_amount

C5_Witness ==
    /\ PackDone
    /\ ret.ok
    /\ call.initial_amount = FromNat(1000000)
    /\ call.expected_amount = Mask128
    /\ BitField(PackedWords[Len(PackedWords)], AmountBits, 2 * AmountBits) = Mask128

\* C6: pack with len(pools) # len(fees) always fails and returns no words.
C6_MismatchFails ==
    (PackDone /\ Len(call.pools) # Len(call.fees)) =>
        /\ ~ret.ok
        /\ ret.error = "AssertionError"
        /\ "value" \notin DOMAIN ret

C6_Witness ==
    /\ PackDone
    /\ Len(call.pools) = MaxPools
    /\ Len(call.fees) = MaxPools - 1
    /\ ~ret.ok

(***************************************************************************)
(* enumerate_method_selectors                                              *)
(*                                                                         *)
(* A string is the sequence of its characters.  An ABI entry is a record   *)
(* with an optional name and an optional list of inputs, each input with   *)
(* an optional internalType.                                               *)
(***************************************************************************)
Digits == <<"0", "1", "2", "3", "4", "5", "6", "7", "8", "9">>

IsDigitChar(c) == \E v \in 1..Len(Digits) : Digits[v] = c

DigitVal(c) == CHOOSE v \in 0..(Len(Digits) - 1) : Digits[v + 1] = c

\* int(s) of a non-empty string of decimal digits
RECURSIVE ParseInt(_)
ParseInt(s) ==
    IF s = <<>> THEN 0
    ELSE Len(Digits) * ParseInt(SubSeq(s, 1, Len(s) - 1)) + DigitVal(s[Len(s)])

\* s.isdigit()
IsDigit(s) == s # <<>> /\ \A i \in 1..Len(s) : IsDigitChar(s[i])

\* s.startswith(prefix)
StartsWith(s, prefix) ==
    Len(s) >= Len(prefix) /\ SubSeq(s, 1, Len(prefix)) = prefix

\* split(r'[^\d]', text)[-1]: the digits after the last non-digit character
RECURSIVE _extract_numeric_tail(_)
_extract_numeric_tail(text) ==
    IF text = <<>> \/ ~IsDigitChar(text[Len(text)]) THEN <<>>
    ELSE _extract_numeric_tail(SubSeq(text, 1, Len(text) - 1)) \o <<text[Len(text)]>>

\* the end of a match of \[(\d+)\] that starts at position i, or 0
MatchEnd(s, i) ==
    IF s[i] # "[" THEN 0
    ELSE LET ends == {j \in (i + 2)..Len(s) :
                         /\ s[j] = "]"
                         /\ \A k \in (i + 1)..(j - 1) : IsDigitChar(s[k])}
         IN  IF ends = {} THEN 0 ELSE CHOOSE j \in ends : \A k \in ends : j <= k

\* a type without a fixed array size parsed as an array of no element
_parse_numeric_array_length_lenient(input_str) ==
    LET starts == {i \in 1..Len(input_str) : MatchEnd(input_str, i) # 0}
    IN  IF starts = {} THEN [ok |-> TRUE, value |-> 0]
        ELSE LET i == CHOOSE a \in starts : \A b \in starts : a <= b
             IN  [ok |-> TRUE,
                  value |-> ParseInt(SubSeq(input_str, i + 1, MatchEnd(input_str, i) - 1))]

\* search(r"\[(\d+)\]", input_str): the leftmost match, or a ValueError
_parse_numeric_array_length(input_str) ==
    LET starts == {i \in 1..Len(input_str) : MatchEnd(input_str, i) # 0}
    IN  IF starts = {} THEN [ok |-> FALSE, error |-> "ValueError",
                             msg |-> "No numeric array length found in string."]
        ELSE LET i == CHOOSE a \in starts : \A b \in starts : a <= b
             IN  [ok |-> TRUE,
                  value |-> ParseInt(SubSeq(input_str, i + 1, MatchEnd(input_str, i) - 1))]

\* DummyContract.encodeABI of the unit tests: "0xabcdef1234567890"
encodeABI(fname, args) ==
    <<"0", "x", "a", "b", "c", "d", "e", "f", "1", "2", "3", "4", "5", "6", "7", "8", "9", "0">>

\* c.upper() of one character of a hexadecimal string
Upper(c) ==
    IF \E v \in 1..Len(HexChars) : HexChars[v] = c
    THEN HexUpper[CHOOSE v \in 1..Len(HexChars) : HexChars[v] = c]
    ELSE c

\* "0x" + calldata[2:10].upper()
Selector(calldata) ==
    <<"0", "x">> \o [i \in 1..(Min(Len(calldata), 10) - 2) |-> Upper(calldata[i + 2])]

Multiswap == <<"m", "u", "l", "t", "i", "s", "w", "a", "p">>

Swapinspect == <<"s", "w", "a", "p", "i", "n", "s", "p", "e", "c", "t">>

\* c.get("inputs", [])
InputsOf(c) == IF c.inputs.none THEN <<>> ELSE c.inputs.v

\* fname and (fname.startswith("multiswap") or fname.startswith("swapinspect"))
IsSwapFunction(c) ==
    /\ ~c.name.none
    /\ c.name.v # <<>>
    /\ StartsWith(c.name.v, Multiswap) \/ StartsWith(c.name.v, Swapinspect)

Logged(calldata, fname, shape, nn) ==
    [kind |-> "log", selector |-> Selector(calldata), fname |-> fname,
     shape |-> shape, length |-> nn, PATH_LENGTH |-> nn - 1]

Raised(msg) == [kind |-> "raise", error |-> "ValueError", msg |-> msg]

\* the numeric tail used only for a function that declares no input
EntryOutcomeInputsFirst(c) ==
    IF ~IsSwapFunction(c) THEN [kind |-> "skip"]
    ELSE IF IsDigit(_extract_numeric_tail(c.name.v)) /\ Len(InputsOf(c)) = 0
    THEN Logged(encodeABI(c.name.v, <<>>), c.name.v, "()",
                ParseInt(_extract_numeric_tail(c.name.v)))
    ELSE IF Len(InputsOf(c)) # 1
    THEN Raised("Expected one input for function")
    ELSE IF InputsOf(c)[1].internalType.none \/ InputsOf(c)[1].internalType.v = <<>>
    THEN Raised("Input missing internal type")
    ELSE LET n == _parse_numeric_array_length(InputsOf(c)[1].internalType.v)
         IN  IF ~n.ok THEN Raised(n.msg)
             ELSE Logged(encodeABI(c.name.v, <<[i \in 1..n.value |-> 123]>>),
                         c.name.v, "(uint256[])", n.value)

\* the body of the loop over contract.abi, lines 58-77
EntryOutcome(c) ==
    IF ~IsSwapFunction(c) THEN [kind |-> "skip"]
    ELSE IF IsDigit(_extract_numeric_tail(c.name.v))
    THEN Logged(encodeABI(c.name.v, <<>>), c.name.v, "()",
                ParseInt(_extract_numeric_tail(c.name.v)))
    ELSE IF Len(InputsOf(c)) # 1
    THEN Raised("Expected one input for function")
    ELSE IF InputsOf(c)[1].internalType.none \/ InputsOf(c)[1].internalType.v = <<>>
    THEN Raised("Input missing internal type")
    ELSE LET n == _parse_numeric_array_length(InputsOf(c)[1].internalType.v)
         IN  IF ~n.ok THEN Raised(n.msg)
             ELSE Logged(encodeABI(c.name.v, <<[i \in 1..n.value |-> 123]>>),
                         c.name.v, "(uint256[])", n.value)

\* the loop from entry i on, with the lines logged so far
RECURSIVE EnumerateFrom(_, _, _)
EnumerateFrom(abi, i, log) ==
    IF i > Len(abi) THEN [ok |-> TRUE, log |-> log]
    ELSE LET o == EntryOutcome(abi[i])
         IN  CASE o.kind = "skip" -> EnumerateFrom(abi, i + 1, log)
               [] o.kind = "log" -> EnumerateFrom(abi, i + 1, Append(log, o))
               [] OTHER -> [ok |-> FALSE, error |-> o.error, msg |-> o.msg, log |-> log]

enumerate_method_selectors(abi) == EnumerateFrom(abi, 1, <<>>)

(***************************************************************************)
(* Inputs of enumerate_method_selectors.                                   *)
(***************************************************************************)
Uint256Array8 == <<"u", "i", "n", "t", "2", "5", "6", "[", "8", "]">>

Uint256Dynamic == <<"u", "i", "n", "t", "2", "5", "6", "[", "]">>

AddressType == <<"a", "d", "d", "r", "e", "s", "s">>

AbiNames == {None,
             Some(Multiswap \o <<"5">>),
             Some(Multiswap),
             Some(Swapinspect \o <<"1", "2">>),
             Some(Swapinspect \o <<"2", "b">>),
             Some(<<"t", "r", "a", "n", "s", "f", "e", "r">>)}

AbiInputs == {None,
              Some(<<>>),
              Some(<<[internalType |-> Some(Uint256Array8)]>>),
              Some(<<[internalType |-> Some(Uint256Dynamic)]>>),
              Some(<<[internalType |-> None]>>),
              Some(<<[internalType |-> Some(Uint256Array8)],
                     [internalType |-> Some(AddressType)]>>)}

AbiEntries == {[name |-> n, inputs |-> i] : n \in AbiNames, i \in AbiInputs}

InitDiscover ==
    /\ pc = "idle"
    /\ call = Idle
    /\ ret = NoRet
    /\ plan = NoPlan
    /\ connector = NoConnector

Discover ==
    /\ pc = "idle"
    /\ \E abi \in SeqsOf(AbiEntries, 0, MaxAbi) :
          /\ call' = [op |-> "enumerate_method_selectors", abi |-> abi]
          /\ ret' = enumerate_method_selectors(abi)
    /\ pc' = "done"
    /\ UNCHANGED <<plan, connector>>

NextDiscover == Discover \/ Return

SpecDiscover == InitDiscover /\ [][NextDiscover]_vars

(***************************************************************************)
(* Properties of selector discovery.                                       *)
(***************************************************************************)
DiscoverDone == pc = "done" /\ call.op = "enumerate_method_selectors"

\* the multiswap* and swapinspect* entries of the ABI, in declaration order
SwapFunctions == SelectSeq(call.abi, IsSwapFunction)

HasNumericSuffix(c) == _extract_numeric_tail(c.name.v) # <<>>

HasArraySize(type) == \E i \in 1..Len(type) : MatchEnd(type, i) # 0

\* the size between the first pair of brackets that hold only digits
ArraySize(type) ==
    LET i == CHOOSE a \in 1..Len(type) :
                 MatchEnd(type, a) # 0 /\ \A b \in 1..(a - 1) : MatchEnd(type, b) = 0
    IN  ParseInt(SubSeq(type, i + 1, MatchEnd(type, i) - 1))

\* C3 as stated: the name suffix gives the path length only for a function
\* with a numeric suffix and no input; in every other case the path length is
\* the array size of the single input.  The hop count is pathLength - 1.
C3_SuffixOnlyWithoutInputs ==
    (DiscoverDone /\ ret.ok) =>
        /\ Len(ret.log) = Len(SwapFunctions)
        /\ \A j \in 1..Len(ret.log) :
              LET c == SwapFunctions[j]
              IN  /\ ret.log[j].PATH_LENGTH = ret.log[j].length - 1
                  /\ IF HasNumericSuffix(c) /\ Len(InputsOf(c)) = 0
                     THEN ret.log[j].length = ParseInt(_extract_numeric_tail(c.name.v))
                     ELSE (/\ Len(InputsOf(c)) = 1
                           /\ ~InputsOf(c)[1].internalType.none
                           /\ HasArraySize(InputsOf(c)[1].internalType.v))
                          => ret.log[j].length = ArraySize(InputsOf(c)[1].internalType.v)

\* C3, amended: the name suffix gives the path length for every function with
\* a numeric suffix, whatever inputs it declares; in every other case the path
\* length is the array size of the single input.  The hop count is
\* pathLength - 1 (multiswap5 gives 5 and 4, one uint256[8] input 8 and 7).
C3_SuffixFirst ==
    (DiscoverDone /\ ret.ok) =>
        /\ Len(ret.log) = Len(SwapFunctions)
        /\ \A j \in 1..Len(ret.log) :
              LET c == SwapFunctions[j]
              IN  /\ ret.log[j].PATH_LENGTH = ret.log[j].length - 1
                  /\ ret.log[j].fname = c.name.v
                  /\ IF HasNumericSuffix(c)
                     THEN ret.log[j].length = ParseInt(_extract_numeric_tail(c.name.v))
                     ELSE /\ Len(InputsOf(c)) = 1
                          /\ ~InputsOf(c)[1].internalType.none
                          /\ HasArraySize(InputsOf(c)[1].internalType.v)
                          /\ ret.log[j].length = ArraySize(InputsOf(c)[1].internalType.v)
                  /\ c.name.v = Multiswap \o <<"5">> =>
                        ret.log[j].length = 5 /\ ret.log[j].PATH_LENGTH = 4
                  /\ (c.name.v = Multiswap
                        /\ c.inputs = Some(<<[internalType |-> Some(Uint256Array8)]>>)) =>
                        ret.log[j].length = 8 /\ ret.log[j].PATH_LENGTH = 7

C3_Witness ==
    /\ DiscoverDone
    /\ ret.ok
    /\ Len(ret.log) = MaxAbi
    /\ call.abi[1] = [name |-> Some(Multiswap \o <<"5">>),
                      inputs |-> Some(<<[internalType |-> Some(Uint256Array8)]>>)]
    /\ call.abi[MaxAbi] = [name |-> Some(Multiswap),
                           inputs |-> Some(<<[internalType |-> Some(Uint256Array8)]>>)]
    /\ ret.log[1].length = 5
    /\ ret.log[MaxAbi].PATH_LENGTH = 7

\* C8 as stated: discovery fails for every multiswap*/swapinspect* function
\* with more than one input (whatever its name), for every such function with
\* no input and no numeric suffix, and for every such function whose single
\* input type has no fixed array size.
C8_ShapeErrorAnyName ==
    (DiscoverDone /\ \E k \in 1..Len(SwapFunctions) :
        LET c == SwapFunctions[k]
        IN  \/ Len(InputsOf(c)) > 1
            \/ Len(InputsOf(c)) = 0 /\ ~HasNumericSuffix(c)
            \/ /\ Len(InputsOf(c)) = 1
               /\ ~InputsOf(c)[1].internalType.none
               /\ ~HasArraySize(InputsOf(c)[1].internalType.v))
    => (~ret.ok /\ ret.error = "ValueError")

\* C8, amended: discovery fails for every multiswap*/swapinspect* function
\* without a numeric name suffix that declares more than one input, or no
\* input, or a single input whose type has no fixed array size.
C8_ShapeErrorWithoutSuffix ==
    (DiscoverDone /\ \E k \in 1..Len(SwapFunctions) :
        LET c == SwapFunctions[k]
        IN  /\ ~HasNumericSuffix(c)
            /\ \/ Len(InputsOf(c)) > 1
               \/ Len(InputsOf(c)) = 0
               \/ /\ Len(InputsOf(c)) = 1
                  /\ ~InputsOf(c)[1].internalType.none
                  /\ ~HasArraySize(InputsOf(c)[1].internalType.v))
    => (~ret.ok /\ ret.error = "ValueError")

C8_Witness ==
    /\ DiscoverDone
    /\ ~ret.ok
    /\ Len(call.abi) = MaxAbi
    /\ call.abi[1].name = Some(Multiswap \o <<"5">>)
    /\ Len(ret.log) = 1
    /\ call.abi[MaxAbi] = [name |-> Some(Multiswap),
                           inputs |-> Some(<<[internalType |-> Some(Uint256Dynamic)]>>)]
    /\ ret.msg = "No numeric array length found in string."

(***************************************************************************)
(* SwapInspection.from_output                                              *)
(*                                                                         *)
(* A python value met in the raw output is a record with its type, its     *)
(* textual form and the number it denotes: an address written in lower     *)
(* case or in checksummed form, an int, a str of decimal digits, or None.  *)
(* The raw output and its rows are tagged with their python type; kind     *)
(* "other" is any type but list and tuple.                                 *)
(***************************************************************************)
PyAddress(form, n) == [type |-> "address", form |-> form, n |-> n]

PyInt(n) == [type |-> "int", form |-> "int", n |-> n]

PyStr(n) == [type |-> "str", form |-> "decimal", n |-> n]

PyNone == [type |-> "NoneType", form |-> "None", n |-> 0]

\* eth_utils.to_checksum_address
to_checksum_address(x) ==
    IF x.type = "address"
    THEN [ok |-> TRUE, value |-> PyAddress("checksum", x.n)]
    ELSE [ok |-> FALSE, error |-> "ValueError"]

\* int(x)
int(x) ==
    CASE x.type = "int" -> [ok |-> TRUE, value |-> x.n]
      [] x.type = "str" -> [ok |-> TRUE, value |-> x.n]
      [] x.type = "address" -> [ok |-> FALSE, error |-> "ValueError"]
      [] OTHER -> [ok |-> FALSE, error |-> "TypeError"]

IsListOrTuple(x) == x.kind \in {"list", "tuple"}

NumFields == 8

\* lines 48-55: the conversions of the fields of a row, in order
Conversions(t) ==
    <<to_checksum_address(t[1]), to_checksum_address(t[2]),
      int(t[3]), int(t[4]), int(t[5]), int(t[6]), int(t[7]), int(t[8])>>

\* the two reserves and the two measured amounts in each other's field
NewSwapInspectionReordered(f) ==
    [class |-> "SwapInspection",
     tokenIn |-> f[1].value, tokenOut |-> f[2].value,
     reserveIn |-> f[4].value, reserveOut |-> f[3].value,
     transferredAmountIn |-> f[5].value, measuredAmountIn |-> f[8].value,
     transferredAmountOut |-> f[7].value, measuredAmountOut |-> f[6].value]

\* lines 56-64
NewSwapInspection(f) ==
    [class |-> "SwapInspection",
     tokenIn |-> f[1].value, tokenOut |-> f[2].value,
     reserveIn |-> f[3].value, reserveOut |-> f[4].value,
     transferredAmountIn |-> f[5].value, measuredAmountIn |-> f[6].value,
     transferredAmountOut |-> f[7].value, measuredAmountOut |-> f[8].value]

\* lines 46-64 for one row t
RowOutcome(t) ==
    IF ~IsListOrTuple(t) THEN [ok |-> FALSE, error |-> "AssertionError"]
    ELSE IF Len(t.fields) # NumFields THEN [ok |-> FALSE, error |-> "AssertionError"]
    ELSE LET f == Conversions(t.fields)
             bad == {k \in 1..NumFields : ~f[k].ok}
         IN  IF bad # {}
             THEN [ok |-> FALSE, error |-> f[CHOOSE k \in bad : \A l \in bad : k <= l].error]
             ELSE [ok |-> TRUE, value |-> NewSwapInspection(f)]

\* the loop from row i on, with the records appended so far
RECURSIVE DecodeFrom(_, _, _)
DecodeFrom(rows, i, res) ==
    IF i > Len(rows) THEN [ok |-> TRUE, value |-> res]
    ELSE LET o == RowOutcome(rows[i])
         IN  IF o.ok THEN DecodeFrom(rows, i + 1, Append(res, o.value))
             ELSE [ok |-> FALSE, error |-> o.error]

\* malformed rows left out of the result instead of failing
RECURSIVE DecodeSkipping(_, _, _)
DecodeSkipping(rows, i, res) ==
    IF i > Len(rows) THEN [ok |-> TRUE, value |-> res]
    ELSE LET o == RowOutcome(rows[i])
         IN  IF o.ok THEN DecodeSkipping(rows, i + 1, Append(res, o.value))
             ELSE IF o.error = "AssertionError" THEN DecodeSkipping(rows, i + 1, res)
             ELSE [ok |-> FALSE, error |-> o.error]

from_output_skipping(data) ==
    IF IsListOrTuple(data) THEN DecodeSkipping(data.rows, 1, <<>>)
    ELSE [ok |-> FALSE, error |-> "RuntimeError"]

from_output(data) ==
    IF IsListOrTuple(data) THEN DecodeFrom(data.rows, 1, <<>>)
    ELSE [ok |-> FALSE, error |-> "RuntimeError"]

(***************************************************************************)
(* Inputs of from_output.                                                  *)
(***************************************************************************)
RowA == [kind |-> "list",
         fields |-> <<PyAddress("lower", 1), PyAddress("lower", 2),
                      PyInt(11), PyInt(12), PyInt(13), PyInt(14), PyInt(15), PyInt(16)>>]

RowB == [kind |-> "tuple",
         fields |-> <<PyAddress("checksum", 2), PyAddress("lower", 3),
                      PyInt(21), PyInt(22), PyStr(23), PyInt(24), PyInt(25), PyInt(26)>>]

Row7 == [kind |-> "list", fields |-> SubSeq(RowA.fields, 1, NumFields - 1)]

Row9 == [kind |-> "tuple", fields |-> Append(RowB.fields, PyInt(27))]

\* eight fields, one of them None
RowNone == [kind |-> "list", fields |-> [RowA.fields EXCEPT ![4] = PyNone]]

\* a row that is neither a list nor a tuple
RowOther == [kind |-> "other", fields |-> RowA.fields]

RawRows == {RowA, RowB, Row7, Row9, RowNone, RowOther}

RawOutputs ==
    {[kind |-> k, rows |-> r] : k \in {"list", "tuple"}, r \in SeqsOf(RawRows, 0, MaxRows)}
    \cup {[kind |-> "other", rows |-> <<RowA>>]}

InitDecode ==
    /\ pc = "idle"
    /\ call = Idle
    /\ ret = NoRet
    /\ plan = NoPlan
    /\ connector = NoConnector

Decode ==
    /\ pc = "idle"
    /\ \E data \in RawOutputs :
          /\ call' = [op |-> "from_output", data |-> data]
          /\ ret' = from_output(data)
    /\ pc' = "done"
    /\ UNCHANGED <<plan, connector>>

NextDecode == Decode \/ Return

SpecDecode == InitDecode /\ [][NextDecode]_vars

(***************************************************************************)
(* Properties of the decoder.                                              *)
(***************************************************************************)
DecodeDone == pc = "done" /\ call.op = "from_output"

Malformed(t) == t.kind \notin {"list", "tuple"} \/ Len(t.fields) # 8

\* C9: from_output fails and returns no record when the raw output is not a
\* list or tuple (RuntimeError), or when a row at any position is not a list
\* or tuple of exactly 8 fields (AssertionError, unless an earlier row failed
\* in a conversion).
C9_MalformedFails ==
    DecodeDone =>
        /\ call.data.kind \notin {"list", "tuple"} =>
              ret = [ok |-> FALSE, error |-> "RuntimeError"]
        /\ (/\ call.data.kind \in {"list", "tuple"}
            /\ \E i \in 1..Len(call.data.rows) : Malformed(call.data.rows[i])) =>
              /\ ~ret.ok
              /\ "value" \notin DOMAIN ret
              /\ (\A i \in 1..Len(call.data.rows) : call.data.rows[i] # RowNone) =>
                    ret.error = "AssertionError"

C9_Witness ==
    /\ DecodeDone
    /\ Len(call.data.rows) = MaxRows
    /\ call.data.rows[1] = RowA
    /\ call.data.rows[MaxRows - 1] = RowB
    /\ call.data.rows[MaxRows] = Row9
    /\ ret = [ok |-> FALSE, error |-> "AssertionError"]

(***************************************************************************)
(* SwapInspection.update_attack_plan                                       *)
(*                                                                         *)
(* The attack plan belongs to the caller.  It is modelled by what its      *)
(* setters store: per step a reserve for each token, and the issued and    *)
(* measured balances before and after the step.  Steps count from 0.       *)
(***************************************************************************)
Tokens == <<"WBNB", "BUSD", "CAKE">>

TokenSet == {Tokens[k] : k \in 1..Len(Tokens)}

\* a plan of n steps with its estimates, before any inspection
NewPlan(n) ==
    [size |-> n,
     tokens |-> [k \in 1..(n + 1) |-> Tokens[((k - 1) % Len(Tokens)) + 1]],
     reserve |-> [i \in 0..(n - 1) |-> [t \in TokenSet |-> 0]],
     issued_before |-> [i \in 0..(n - 1) |-> 90 + i],
     measured_before |-> [i \in 0..(n - 1) |-> 80 + i],
     issued_after |-> [i \in 0..(n - 1) |-> 70 + i],
     measured_after |-> [i \in 0..(n - 1) |-> 60 + i]]

token_before_step(p, idx) == p.tokens[idx + 1]

token_after_step(p, idx) == p.tokens[idx + 2]

set_pool_token_reserve(p, idx, token, v) == [p EXCEPT !.reserve[idx][token] = v]

set_issued_balance_before_step(p, idx, v) == [p EXCEPT !.issued_before[idx] = v]

set_measured_balance_before_step(p, idx, v) == [p EXCEPT !.measured_before[idx] = v]

set_issued_balance_after_step(p, idx, v) == [p EXCEPT !.issued_after[idx] = v]

set_measured_balance_after_step(p, idx, v) == [p EXCEPT !.measured_after[idx] = v]

\* one call of a setter of the plan
SetterCall(setter, idx, token, v) ==
    [setter |-> setter, idx |-> idx, token |-> token, value |-> v]

NoToken == "-"

ApplyCall(p, w) ==
    CASE w.setter = "set_pool_token_reserve" ->
            set_pool_token_reserve(p, w.idx, w.token, w.value)
      [] w.setter = "set_issued_balance_before_step" ->
            set_issued_balance_before_step(p, w.idx, w.value)
      [] w.setter = "set_measured_balance_before_step" ->
            set_measured_balance_before_step(p, w.idx, w.value)
      [] w.setter = "set_issued_balance_after_step" ->
            set_issued_balance_after_step(p, w.idx, w.value)
      [] OTHER ->
            set_measured_balance_after_step(p, w.idx, w.value)

RECURSIVE ApplyCalls(_, _)
ApplyCalls(p, ws) ==
    IF ws = <<>> THEN p ELSE ApplyCalls(ApplyCall(p, Head(ws)), Tail(ws))

\* the balances before the step written at every step
StepCallsBeforeEveryStep(p, idx, s) ==
    <<SetterCall("set_pool_token_reserve", idx, token_before_step(p, idx), s.reserveIn),
      SetterCall("set_pool_token_reserve", idx, token_after_step(p, idx), s.reserveOut),
      SetterCall("set_issued_balance_before_step", idx, NoToken, s.transferredAmountIn),
      SetterCall("set_measured_balance_before_step", idx, NoToken, s.measuredAmountIn),
      SetterCall("set_issued_balance_after_step", idx, NoToken, s.transferredAmountOut),
      SetterCall("set_measured_balance_after_step", idx, NoToken, s.measuredAmountOut)>>

\* lines 120-130: the setter calls of step idx for the inspection s
StepCalls(p, idx, s) ==
    <<SetterCall("set_pool_token_reserve", idx, token_before_step(p, idx), s.reserveIn),
      SetterCall("set_pool_token_reserve", idx, token_after_step(p, idx), s.reserveOut)>>
    \o (IF idx = 0
        THEN <<SetterCall("set_issued_balance_before_step", idx, NoToken,
                          s.transferredAmountIn),
               SetterCall("set_measured_balance_before_step", idx, NoToken,
                          s.measuredAmountIn)>>
        ELSE <<>>)
    \o <<SetterCall("set_issued_balance_after_step", idx, NoToken, s.transferredAmountOut),
         SetterCall("set_measured_balance_after_step", idx, NoToken, s.measuredAmountOut)>>

\* isinstance(s, SwapInspection)
IsSwapInspection(s) == s.class = "SwapInspection"

\* the loop from index idx on, with the plan and the setter calls so far
RECURSIVE ReconcileFrom(_, _, _, _)
ReconcileFrom(p, seq, idx, calls) ==
    IF idx >= Len(seq) THEN [ok |-> TRUE, plan |-> p, calls |-> calls]
    ELSE IF ~IsSwapInspection(seq[idx + 1])
    THEN [ok |-> FALSE, error |-> "AssertionError", plan |-> p, calls |-> calls]
    ELSE ReconcileFrom(ApplyCalls(p, StepCalls(p, idx, seq[idx + 1])), seq, idx + 1,
                       calls \o StepCalls(p, idx, seq[idx + 1]))

\* without the length assertion: the loop runs over whatever it is given
update_attack_plan_unchecked(attack_plan, swap_inspection_seq) ==
    ReconcileFrom(attack_plan,
                  SubSeq(swap_inspection_seq, 1,
                         Min(Len(swap_inspection_seq), attack_plan.size)),
                  0, <<>>)

update_attack_plan(attack_plan, swap_inspection_seq) ==
    IF Len(swap_inspection_seq) # attack_plan.size
    THEN [ok |-> FALSE, error |-> "AssertionError", plan |-> attack_plan, calls |-> <<>>]
    ELSE ReconcileFrom(attack_plan, swap_inspection_seq, 0, <<>>)

(***************************************************************************)
(* Inputs of update_attack_plan.                                           *)
(***************************************************************************)
InspA == from_output([kind |-> "list", rows |-> <<RowA>>]).value[1]

InspB == from_output([kind |-> "list", rows |-> <<RowB>>]).value[1]

\* an element that is not a SwapInspection
NotInspection == [InspA EXCEPT !.class = "tuple"]

Inspections == {InspA, InspB, NotInspection}

InitReconcile ==
    /\ pc = "idle"
    /\ call = Idle
    /\ ret = NoRet
    /\ \E n \in 0..MaxSteps : plan = NewPlan(n)
    /\ connector = NoConnector

Reconcile ==
    /\ pc = "idle"
    /\ \E seq \in SeqsOf(Inspections, 0, MaxSteps + 1) :
          LET r == update_attack_plan(plan, seq)
          IN  /\ call' = [op |-> "update_attack_plan", attack_plan |-> plan,
                          swap_inspection_seq |-> seq]
              /\ plan' = r.plan
              /\ ret' = IF r.ok THEN [ok |-> TRUE, calls |-> r.calls]
                        ELSE [ok |-> FALSE, error |-> r.error, calls |-> r.calls]
    /\ pc' = "done"
    /\ UNCHANGED connector

NextReconcile == Reconcile \/ Return

SpecReconcile == InitReconcile /\ [][NextReconcile]_vars

(***************************************************************************)
(* Properties of the reconciliation.                                       *)
(***************************************************************************)
ReconcileDone == pc = "done" /\ call.op = "update_attack_plan"

\* C4: update_attack_plan with a sequence whose length differs from the
\* plan's path length fails, no setter of the plan is called and the plan is
\* as it was before the call.
C4_LengthMismatchNoMutation ==
    (ReconcileDone /\ Len(call.swap_inspection_seq) # call.attack_plan.size) =>
        /\ ~ret.ok
        /\ ret.error = "AssertionError"
        /\ ret.calls = <<>>
        /\ plan = call.attack_plan

C4_Witness ==
    /\ ReconcileDone
    /\ call.attack_plan.size = MaxSteps
    /\ call.attack_plan # NewPlan(MaxSteps)
    /\ Len(call.swap_inspection_seq) = MaxSteps - 1
    /\ \A i \in 1..Len(call.swap_inspection_seq) :
          IsSwapInspection(call.swap_inspection_seq[i])
    /\ ~ret.ok
    /\ plan = call.attack_plan

\* the setter calls the claim C10 lists for step i
ClaimedCalls(i) ==
    LET s == call.swap_inspection_seq[i + 1]
    IN  <<[setter |-> "set_pool_token_reserve", idx |-> i,
           token |-> call.attack_plan.tokens[i + 1], value |-> s.reserveIn],
          [setter |-> "set_pool_token_reserve", idx |-> i,
           token |-> call.attack_plan.tokens[i + 2], value |-> s.reserveOut]>>
        \o (IF i = 0
            THEN <<[setter |-> "set_issued_balance_before_step", idx |-> 0,
                    token |-> NoToken, value |-> s.transferredAmountIn],
                   [setter |-> "set_measured_balance_before_step", idx |-> 0,
                    token |-> NoToken, value |-> s.measuredAmountIn]>>
            ELSE <<>>)
        \o <<[setter |-> "set_issued_balance_after_step", idx |-> i,
              token |-> NoToken, value |-> s.transferredAmountOut],
             [setter |-> "set_measured_balance_after_step", idx |-> i,
              token |-> NoToken, value |-> s.measuredAmountOut]>>

RECURSIVE ClaimedCallsUpTo(_)
ClaimedCallsUpTo(n) ==
    IF n = 0 THEN <<>> ELSE ClaimedCallsUpTo(n - 1) \o ClaimedCalls(n - 1)

\* C10: after a successful update_attack_plan of a plan of n steps the setter
\* calls are exactly, in step order: for every step i the reserve of
\* (i, token before i) from reserveIn, the reserve of (i, token after i) from
\* reserveOut, and the issued and measured balance after step i from
\* transferredAmountOut and measuredAmountOut; the issued and measured balance
\* before a step are written for step 0 only and unchanged for every i > 0.
C10_WritesInStepOrder ==
    (ReconcileDone /\ ret.ok) =>
        LET n == call.attack_plan.size
            seq == call.swap_inspection_seq
        IN  /\ ret.calls = ClaimedCallsUpTo(n)
            /\ \A i \in 0..(n - 1) :
                  /\ plan.reserve[i][call.attack_plan.tokens[i + 1]] = seq[i + 1].reserveIn
                  /\ plan.reserve[i][call.attack_plan.tokens[i + 2]] = seq[i + 1].reserveOut
                  /\ plan.issued_after[i] = seq[i + 1].transferredAmountOut
                  /\ plan.measured_after[i] = seq[i + 1].measuredAmountOut
                  /\ i = 0 => /\ plan.issued_before[i] = seq[1].transferredAmountIn
                              /\ plan.measured_before[i] = seq[1].measuredAmountIn
                  /\ i > 0 => /\ plan.issued_before[i] = call.attack_plan.issued_before[i]
                              /\ plan.measured_before[i] = call.attack_plan.measured_before[i]

C10_Witness ==
    /\ ReconcileDone
    /\ ret.ok
    /\ call.attack_plan.size = MaxSteps
    /\ call.swap_inspection_seq[1] = InspA
    /\ call.swap_inspection_seq[MaxSteps] = InspB
    /\ plan.reserve[MaxSteps - 1][call.attack_plan.tokens[MaxSteps]] = 21
    /\ plan.issued_before[0] = 13
    /\ plan.issued_before[MaxSteps - 1] = 90 + MaxSteps - 1
    /\ Len(ret.calls) = 4 * MaxSteps + 2

(***************************************************************************)
(* Properties of the override type of inspection_calldata.                 *)
(***************************************************************************)
UnsupportedType == [ok |-> FALSE, error |-> "TypeError",
                    msg |-> "override_fees must be int or list[int]"]

\* C11: inspection_calldata fails with the unsupported type error whenever
\* override_fees is neither absent, an integer, nor a sequence; and it does not
\* fail with that error when override_fees is absent, an integer (0 included)
\* or a sequence, of whatever sequence type, of the length of the path.
C11_UnsupportedOverrideType ==
    InspectDone =>
        /\ call.override_fees.kind = "other" => ret = UnsupportedType
        /\ call.override_fees.kind \in {"none", "int"} => ret # UnsupportedType
        /\ (/\ call.override_fees.kind \in {"list", "tuple"}
            /\ Len(call.override_fees.items) = Len(call.path)) => ret # UnsupportedType

(***************************************************************************)
(* Properties of the decoded records.                                      *)
(***************************************************************************)
\* a raw output whose rows all have 8 fields: two addresses, then six numbers
WellFormed(data) ==
    /\ data.kind \in {"list", "tuple"}
    /\ \A j \in 1..Len(data.rows) :
          /\ data.rows[j].kind \in {"list", "tuple"}
          /\ Len(data.rows[j].fields) = 8
          /\ \A k \in 1..2 : data.rows[j].fields[k].type = "address"
          /\ \A k \in 3..8 : data.rows[j].fields[k].type \in {"int", "str"}

\* C12: for a well-formed raw output of k rows of 8 fields, from_output
\* returns k SwapInspection records in the order of the rows, and record j
\* carries the fields of row j by position: 0 tokenIn, 1 tokenOut, 2 reserveIn,
\* 3 reserveOut, 4 transferredAmountIn, 5 measuredAmountIn,
\* 6 transferredAmountOut, 7 measuredAmountOut.
C12_PositionalDecode ==
    (DecodeDone /\ WellFormed(call.data)) =>
        /\ ret.ok
        /\ Len(ret.value) = Len(call.data.rows)
        /\ \A j \in 1..Len(call.data.rows) :
              LET t == call.data.rows[j].fields
                  r == ret.value[j]
              IN  /\ r.class = "SwapInspection"
                  /\ r.tokenIn = [type |-> "address", form |-> "checksum", n |-> t[1].n]
                  /\ r.tokenOut = [type |-> "address", form |-> "checksum", n |-> t[2].n]
                  /\ r.reserveIn = t[3].n
                  /\ r.reserveOut = t[4].n
                  /\ r.transferredAmountIn = t[5].n
                  /\ r.measuredAmountIn = t[6].n
                  /\ r.transferredAmountOut = t[7].n
                  /\ r.measuredAmountOut = t[8].n

C12_Witness ==
    /\ DecodeDone
    /\ ret.ok
    /\ Len(call.data.rows) = MaxRows
    /\ call.data.rows[1] = RowA
    /\ call.data.rows[MaxRows] = RowB
    /\ ret.value[1].reserveOut = 12
    /\ ret.value[MaxRows].transferredAmountIn = 23
    /\ ret.value[MaxRows].tokenOut.n = 3

(***************************************************************************)
(* Properties of a failed reconciliation.                                  *)
(***************************************************************************)
\* C13: whenever update_attack_plan raises, for any reason and also for an
\* element that is not a SwapInspection at any position, the plan is as it was
\* before the call.
C13_FailureIsTotal ==
    (ReconcileDone /\ ~ret.ok) => plan = call.attack_plan

(***************************************************************************)
(* Properties of the early-stop marker.                                    *)
(***************************************************************************)
\* bit b of x
Bit(x, b) == (Limb(x, b \div BitsPerDigit + 1) \div 2^(b % BitsPerDigit)) % 2

\* x >> (b + 1) = 0
NoBitAbove(x, b) ==
    /\ Len(x) <= b \div BitsPerDigit + 1
    /\ Limb(x, b \div BitsPerDigit + 1) \div 2^((b % BitsPerDigit) + 1) = 0

\* C14 as stated: for any pools and fees, bit 180 of step word i is set if and
\* only if stopAfterPool = i, and all bits above bit 180 of every step word
\* are zero.
C14_StopBitAnyFee ==
    (PackDone /\ ret.ok) =>
        \A i \in 1..Len(call.pools) :
            /\ Bit(PackedWords[i], StopBit) = 1 <=>
                  call.stop_after_pool = Some(i - 1)
            /\ NoBitAbove(PackedWords[i], StopBit)

\* C14, amended: for every step i whose pool address fits 160 bits and whose
\* fee is below 2^20, bit 180 of step word i is set if and only if
\* stopAfterPool = i, and all bits above bit 180 of that word are zero.
C14_StopBitInRange ==
    (PackDone /\ ret.ok) =>
        \A i \in 1..Len(call.pools) :
            (FitsBits(ParseHex(call.pools[i]), AddressBits) /\ call.fees[i] < 2^FeeBits) =>
                /\ Bit(PackedWords[i], StopBit) = 1 <=>
                      call.stop_after_pool = Some(i - 1)
                /\ NoBitAbove(PackedWords[i], StopBit)

C14_Witness ==
    /\ PackDone
    /\ ret.ok
    /\ Len(call.pools) = MaxPools
    /\ call.stop_after_pool = Some(MaxPools - 1)
    /\ \A i \in 1..MaxPools : call.pools[i] = AddrB /\ call.fees[i] = 2^FeeBits - 1
    /\ Bit(PackedWords[MaxPools], StopBit) = 1
    /\ Bit(PackedWords[1], StopBit) = 0

(***************************************************************************)
(* Web3Connector.get_connection and reset_connection                       *)
(*                                                                         *)
(* A Web3 instance is a record with its identity, the URL of its provider  *)
(* and the answer is_connected() gave when get_connection checked it.      *)
(***************************************************************************)
DEFAULT_RPC_ENDPOINTS ==
    [bsc |-> "https://bsc-dataseed1.binance.org",
     bsc_testnet |-> "https://data-seed-prebsc-1-s1.binance.org:8545",
     ethereum |-> "https://eth.public-rpc.com",
     polygon |-> "https://polygon-rpc.com"]

\* lines 49-57: the URL of the call, or None for an unknown network
ResolveUrl(rpc_url, network) ==
    IF ~rpc_url.none /\ rpc_url.v # "" THEN Some(rpc_url.v)
    ELSE IF network \in DOMAIN DEFAULT_RPC_ENDPOINTS
    THEN Some(DEFAULT_RPC_ENDPOINTS[network])
    ELSE None

\* lines 59-73, for the class state cls and the answer up of is_connected()
get_connection(cls, rpc_url, network, up) ==
    LET url == ResolveUrl(rpc_url, network)
        inst == [id |-> cls.created + 1, url |-> url.v, passed_check |-> up]
        created == [_instance |-> Some(inst), _rpc_url |-> url,
                    created |-> cls.created + 1]
    IN  IF url.none
        THEN [ret |-> [ok |-> FALSE, error |-> "ValueError"], cls |-> cls]
        ELSE IF cls._instance.none \/ cls._rpc_url # url
        THEN IF ~up
             THEN [ret |-> [ok |-> FALSE, error |-> "ConnectionError"], cls |-> created]
             ELSE [ret |-> [ok |-> TRUE, value |-> inst], cls |-> created]
        ELSE [ret |-> [ok |-> TRUE, value |-> cls._instance.v], cls |-> cls]

\* lines 75-79
reset_connection(cls) == [cls EXCEPT !._instance = None, !._rpc_url = None]

(***************************************************************************)
(* Inputs of get_connection.                                               *)
(***************************************************************************)
RpcUrls == {None, Some(""), Some("http://localhost:8545")}

Networks == {"bsc_testnet", "bsc", "moon"}

InitConnect ==
    /\ pc = "idle"
    /\ call = Idle
    /\ ret = NoRet
    /\ plan = NoPlan
    /\ connector = NoConnector

GetConnection ==
    /\ pc = "idle"
    /\ \E rpc_url \in RpcUrls, network \in Networks, up \in BOOLEAN :
          LET r == get_connection(connector, rpc_url, network, up)
          IN  /\ r.cls.created <= MaxInstances
              /\ call' = [op |-> "get_connection", rpc_url |-> rpc_url,
                          network |-> network, cls |-> connector]
              /\ ret' = r.ret
              /\ connector' = r.cls
    /\ pc' = "done"
    /\ UNCHANGED plan

ResetConnection ==
    /\ pc = "idle"
    /\ call' = [op |-> "reset_connection", cls |-> connector]
    /\ ret' = NoRet
    /\ connector' = reset_connection(connector)
    /\ pc' = "done"
    /\ UNCHANGED plan

NextConnect == GetConnection \/ ResetConnection \/ Return

SpecConnect == InitConnect /\ [][NextConnect]_vars

(***************************************************************************)
(* Properties of the connection cache.                                     *)
(***************************************************************************)
GetConnectionDone == pc = "done" /\ call.op = "get_connection"

\* C15: get_connection returns only an instance that passed the connectivity
\* check for the URL resolved in that call; the cached (_instance, _rpc_url)
\* pair never holds an instance whose check failed; and a successful call that
\* resolves to the URL of the cached, checked instance returns that instance
\* without creating a new one.
C15_OnlyCheckedInstances ==
    /\ ~connector._instance.none => connector._instance.v.passed_check
    /\ (GetConnectionDone /\ ret.ok) =>
          /\ ret.value.passed_check
          /\ Some(ret.value.url) = ResolveUrl(call.rpc_url, call.network)
          /\ (/\ ~call.cls._instance.none
              /\ call.cls._rpc_url = ResolveUrl(call.rpc_url, call.network)) =>
                /\ ret.value = call.cls._instance.v
                /\ connector.created = call.cls.created

====
